---- MODULE Spec2Model ----
(***************************************************************************)
(* Orbis Scanner API (src/api/main.py): the POST /analyze handler with its *)
(* API-key lookup, daily rate limit, address validation, request log,      *)
(* Etherscan ABI fetch, ABI keyword analysis, risk score and verdict.      *)
(*                                                                         *)
(* Strings are TLA+ strings; Len, SubSeq and \o act on them character by   *)
(* character, so lower(), strip(), `keyword in name` and int(address, 16)  *)
(* are computed on the characters as Python computes them.                 *)
(***************************************************************************)
EXTENDS Integers, Sequences, FiniteSets, TLC

(***************************************************************************)
(* Bounds of the model.                                                    *)
(***************************************************************************)
\* request handlers that may be in flight at once (Spec)
MaxInFlight == 2
\* requests received over the modelled UTC day
MaxRequests == 7
\* requests received one after the other (SpecAddress, SpecAnalysis)
MaxSequential == 1
\* items in an ABI returned by Etherscan (SpecAnalysis)
MaxAbiLen == 3

(***************************************************************************)
(* Program constants.                                                      *)
(***************************************************************************)
\* limits = {'free': 5, 'premium': 1000}
FreeLimit == 5
PremiumLimit == 1000
\* limits.get(plan, 5)
DefaultLimit == 5
\* len(address) != 42
AddressLength == 42
\* risk_score += 30 / 40 / 30
MintWeight == 30
OwnershipWeight == 40
TaxWeight == 30
\* elif risk_score >= 70 / elif risk_score >= 30
CriticalThreshold == 70
MediumThreshold == 30

(***************************************************************************)
(* Python string primitives.                                               *)
(***************************************************************************)
UpperLetters == "ABCDEFGHIJKLMNOPQRSTUVWXYZ"
LowerLetters == "abcdefghijklmnopqrstuvwxyz"
HexDigits == "0123456789abcdefABCDEF"
Whitespace == " "

CharAt(s, i) == SubSeq(s, i, i)

InChars(c, chars) == \E i \in 1..Len(chars) : CharAt(chars, i) = c

\* the lower-case letter of each upper-case ASCII letter
LowerOf ==
    [c \in {CharAt(UpperLetters, i) : i \in 1..Len(UpperLetters)} |->
        CharAt(LowerLetters, CHOOSE i \in 1..Len(UpperLetters) : CharAt(UpperLetters, i) = c)]

\* str.lower() on one ASCII character
LowerChar(c) == IF c \in DOMAIN LowerOf THEN LowerOf[c] ELSE c

RECURSIVE Lower(_)
\* str.lower()
Lower(s) ==
    IF Len(s) = 0 THEN ""
    ELSE LowerChar(CharAt(s, 1)) \o Lower(SubSeq(s, 2, Len(s)))

RECURSIVE LStrip(_)
LStrip(s) ==
    IF Len(s) > 0 /\ InChars(CharAt(s, 1), Whitespace)
    THEN LStrip(SubSeq(s, 2, Len(s)))
    ELSE s

RECURSIVE RStrip(_)
RStrip(s) ==
    IF Len(s) > 0 /\ InChars(CharAt(s, Len(s)), Whitespace)
    THEN RStrip(SubSeq(s, 1, Len(s) - 1))
    ELSE s

\* str.strip()
Strip(s) == LStrip(RStrip(s))

\* str.startswith(prefix)
StartsWith(s, prefix) ==
    Len(s) >= Len(prefix) /\ SubSeq(s, 1, Len(prefix)) = prefix

\* `keyword in name`: substring containment
Contains(keyword, name) ==
    \E i \in 1..(Len(name) - Len(keyword) + 1) :
        SubSeq(name, i, i + Len(keyword) - 1) = keyword

\* int(text, 16) returns (does not raise ValueError): surrounding whitespace is
\* stripped, one sign and one 0x/0X prefix are accepted, one underscore may follow
\* the prefix, and the digits are hexadecimal with single underscores between them.
IntBase16Parses(text) ==
    LET t == Strip(text)
        u == IF Len(t) > 0 /\ CharAt(t, 1) \in {"+", "-"} THEN SubSeq(t, 2, Len(t)) ELSE t
        p == IF StartsWith(u, "0x") \/ StartsWith(u, "0X") THEN SubSeq(u, 3, Len(u)) ELSE u
        d == IF (Len(p) < Len(u)) /\ StartsWith(p, "_") THEN SubSeq(p, 2, Len(p)) ELSE p
    IN  /\ Len(d) > 0
        /\ CharAt(d, 1) # "_"
        /\ CharAt(d, Len(d)) # "_"
        /\ \A i \in 1..Len(d) : CharAt(d, i) = "_" \/ InChars(CharAt(d, i), HexDigits)
        /\ ~Contains("__", d)

is_valid_ethereum_address(address) ==
    IF ~StartsWith(address, "0x") THEN FALSE
    ELSE IF Len(address) # AddressLength THEN FALSE
    ELSE IntBase16Parses(address)

(***************************************************************************)
(* ABI items.  An item is the JSON object of one ABI entry; the analysis   *)
(* reads its 'type', 'name' (default '') and 'inputs' (default []) keys    *)
(* and never its 'stateMutability'.  An item without a 'name' key has      *)
(* name "" here, which is what item.get('name', '') yields.                *)
(***************************************************************************)
Item(type, name, mutability, inputs) ==
    [type |-> type, name |-> name, stateMutability |-> mutability, inputs |-> inputs]

NoInputs == << >>
OneInput == <<"address">>
TwoInputs == <<"address", "uint256">>

AbiItems ==
    { Item("function", "mint", "nonpayable", TwoInputs),
      Item("function", "mint", "nonpayable", NoInputs),
      Item("function", "Mint", "view", OneInput),
      Item("function", "minter", "nonpayable", OneInput),
      Item("function", "transferOwnership", "nonpayable", OneInput),
      Item("function", "transferOwnershipTo", "nonpayable", OneInput),
      Item("function", "ownership", "nonpayable", NoInputs),
      Item("function", "setFee", "nonpayable", OneInput),
      Item("function", "setFeeReceiver", "pure", OneInput),
      Item("event", "Mint", "", TwoInputs) }

RECURSIVE SeqsUpTo(_, _)
\* the sequences over S of length at most n
SeqsUpTo(S, n) ==
    IF n = 0 THEN { << >> }
    ELSE LET shorter == SeqsUpTo(S, n - 1)
         IN  shorter \cup { Append(q, x) : q \in { r \in shorter : Len(r) = n - 1 }, x \in S }

\* the ABIs Etherscan may return for a verified contract
Abis == SeqsUpTo(AbiItems, MaxAbiLen)

(***************************************************************************)
(* analyze_contract_abi                                                    *)
(***************************************************************************)
mint_keywords == <<"mint", "createtokens", "generatetokens">>
owner_keywords == <<"transferownership", "renounceownership", "setowner",
                    "updateowner", "addowner", "removeowner">>
tax_keywords == <<"setfee", "settax", "updatefee", "updatetax", "setcommission">>

\* any(keyword in name for keyword in keywords)
AnyKeywordIn(keywords, name) ==
    \E i \in 1..Len(keywords) : Contains(keywords[i], name)

EmptyResults ==
    [has_mint |-> FALSE, has_ownership |-> FALSE, has_hidden_taxes |-> FALSE,
     owner_functions |-> << >>, tax_functions |-> << >>, mint_functions |-> << >>]

\* mutant: the inputs test forgotten
MintMatchAnyArity(name, item) == AnyKeywordIn(mint_keywords, name)

MintMatch(name, item) ==
    AnyKeywordIn(mint_keywords, name) /\ Len(item.inputs) > 0

\* mutant: whole-name comparison instead of containment
OwnerMatchExact(name) == \E i \in 1..Len(owner_keywords) : owner_keywords[i] = name

OwnerMatch(name) == AnyKeywordIn(owner_keywords, name)

TaxMatch(name) == AnyKeywordIn(tax_keywords, name)

\* mutant: view and pure functions skipped
AnalyzeItemStateChanging(results, item) ==
    IF item.type = "function" /\ item.stateMutability \notin {"view", "pure"}
    THEN LET name == Lower(item.name)
             r1 == IF MintMatch(name, item)
                   THEN [results EXCEPT !.has_mint = TRUE,
                                        !.mint_functions = Append(@, name)]
                   ELSE results
             r2 == IF OwnerMatch(name)
                   THEN [r1 EXCEPT !.has_ownership = TRUE,
                                   !.owner_functions = Append(@, name)]
                   ELSE r1
             r3 == IF TaxMatch(name)
                   THEN [r2 EXCEPT !.has_hidden_taxes = TRUE,
                                   !.tax_functions = Append(@, name)]
                   ELSE r2
         IN  r3
    ELSE results

\* the body of the loop over contract_abi
AnalyzeItem(results, item) ==
    IF item.type = "function"
    THEN LET name == Lower(item.name)
             r1 == IF MintMatch(name, item)
                   THEN [results EXCEPT !.has_mint = TRUE,
                                        !.mint_functions = Append(@, name)]
                   ELSE results
             r2 == IF OwnerMatch(name)
                   THEN [r1 EXCEPT !.has_ownership = TRUE,
                                   !.owner_functions = Append(@, name)]
                   ELSE r1
             r3 == IF TaxMatch(name)
                   THEN [r2 EXCEPT !.has_hidden_taxes = TRUE,
                                   !.tax_functions = Append(@, name)]
                   ELSE r2
         IN  r3
    ELSE results

RECURSIVE AnalyzeFrom(_, _, _)
AnalyzeFrom(results, contract_abi, i) ==
    IF i > Len(contract_abi) THEN results
    ELSE AnalyzeFrom(AnalyzeItem(results, contract_abi[i]), contract_abi, i + 1)

analyze_contract_abi(contract_abi) == AnalyzeFrom(EmptyResults, contract_abi, 1)

(***************************************************************************)
(* Risk score and verdict of analyze_contract.  The verdict texts are the  *)
(* source's without their leading emoji.                                   *)
(***************************************************************************)
\* mutant: ten more points per matched function after the first, unclamped
RiskScoreWithBonus(analysis) ==
    LET matched == Len(analysis.mint_functions) + Len(analysis.owner_functions)
                     + Len(analysis.tax_functions)
        base == (IF analysis.has_mint THEN MintWeight ELSE 0)
                  + (IF analysis.has_ownership THEN OwnershipWeight ELSE 0)
                  + (IF analysis.has_hidden_taxes THEN TaxWeight ELSE 0)
    IN  IF matched > 1 THEN base + 10 * (matched - 1) ELSE base

\* mutant: the weights 35 / 40 / 25
RiskScoreOtherWeights(analysis) ==
    (IF analysis.has_mint THEN 35 ELSE 0)
      + (IF analysis.has_ownership THEN 40 ELSE 0)
      + (IF analysis.has_hidden_taxes THEN 25 ELSE 0)

\* mutant: `risk_score = 30` instead of `risk_score += 30` on the tax line
RiskScoreTaxAssigned(analysis) ==
    LET s0 == 0
        s1 == IF analysis.has_mint THEN s0 + MintWeight ELSE s0
        s2 == IF analysis.has_ownership THEN s1 + OwnershipWeight ELSE s1
        s3 == IF analysis.has_hidden_taxes THEN TaxWeight ELSE s2
    IN  s3

RiskScore(analysis) ==
    LET s0 == 0
        s1 == IF analysis.has_mint THEN s0 + MintWeight ELSE s0
        s2 == IF analysis.has_ownership THEN s1 + OwnershipWeight ELSE s1
        s3 == IF analysis.has_hidden_taxes THEN s2 + TaxWeight ELSE s2
    IN  s3

VerdictLow == "LOW RISK: No critical issues found"
VerdictCritical == "CRITICAL RISK: High probability of scam"
VerdictMedium == "MEDIUM RISK: Multiple red flags detected"
VerdictCannotAnalyze == "Cannot analyze: Contract not verified or ABI not available"

\* mutant: `>` for `>=` at the critical threshold
VerdictStrictlyAbove(risk_score) ==
    IF risk_score = 0 THEN VerdictLow
    ELSE IF risk_score > CriticalThreshold THEN VerdictCritical
    ELSE IF risk_score >= MediumThreshold THEN VerdictMedium
    ELSE VerdictLow

Verdict(risk_score) ==
    IF risk_score = 0 THEN VerdictLow
    ELSE IF risk_score >= CriticalThreshold THEN VerdictCritical
    ELSE IF risk_score >= MediumThreshold THEN VerdictMedium
    ELSE VerdictLow

(***************************************************************************)
(* The Supabase tables /analyze reads.  The users and subscriptions rows   *)
(* are not written by /analyze; api_requests is a variable.                *)
(***************************************************************************)
Users == {"u_free", "u_prem"}
NoUser == "none"

\* the users row with this api_key, or None (also on a query error)
get_user_by_api_key(api_key, db_ok) ==
    IF ~db_ok THEN NoUser
    ELSE IF api_key = "sk_free" THEN "u_free"
    ELSE IF api_key = "sk_prem" THEN "u_prem"
    ELSE NoUser

\* plan_id of the user's active subscription, 'free' when there is none
PlanOf(user_id) == IF user_id = "u_prem" THEN "premium" ELSE "free"

\* limits.get(plan, 5)
LimitOf(plan) ==
    IF plan = "free" THEN FreeLimit
    ELSE IF plan = "premium" THEN PremiumLimit
    ELSE DefaultLimit

(***************************************************************************)
(* Request inputs and Etherscan replies.                                   *)
(***************************************************************************)
ApiKeys == {"", "sk_unknown", "sk_free", "sk_prem"}

AddrCanonical == "0xdac17f958d2ee523a2206206994597c13d831ec7"
AddrChecksummed == "0xdAC17F958D2ee523a2206206994597C13D831ec7"
AddrUnderscore == "0xdac17f958d2ee523a2206206994597c13d831e_7"
AddrTrailingSpace == "0xdac17f958d2ee523a2206206994597c13d831ec "
AddrNotHex == "0xZZZZZZZZZZZZZZZZZZZZZZZZZZZZZZZZZZZZZZZZ"
AddrShort == "0xdac17f"
AddrNoPrefix == "dac17f958d2ee523a2206206994597c13d831ec7ab"

Addresses ==
    { AddrCanonical, AddrChecksummed, AddrUnderscore, AddrTrailingSpace,
      AddrNotHex, AddrShort, AddrNoPrefix }

\* What requests.get(...).json() gives: `transport` is "timeout" when requests
\* raises Timeout; otherwise data['status'] and data['result'], the latter by
\* the kind of text it is: "" (empty), a message, the JSON of an ABI list,
\* text that is no JSON, or the JSON of an object.
Reply(transport, status, kind, abi) ==
    [transport |-> transport, status |-> status, kind |-> kind, abi |-> abi]

NoReply == Reply("none", "", "", << >>)
ReplyTimeout == Reply("timeout", "", "", << >>)
ReplyNotVerified == Reply("ok", "0", "message", << >>)
ReplyEmptyResult == Reply("ok", "1", "empty", << >>)
ReplyBadJson == Reply("ok", "1", "bad_json", << >>)
ReplyJsonObject == Reply("ok", "1", "json_object", << >>)
ReplyAbi(abi) == Reply("ok", "1", "abi_json", abi)

FailureReplies ==
    { ReplyTimeout, ReplyNotVerified, ReplyEmptyResult, ReplyBadJson, ReplyJsonObject }

\* the replies of the concurrent specification: a few ABIs only
FewReplies ==
    FailureReplies \cup
    { ReplyAbi(<< >>),
      ReplyAbi(<<Item("function", "mint", "nonpayable", TwoInputs)>>) }

\* the replies of the analysis specification: every ABI within the bound
AllReplies == { ReplyNotVerified, ReplyEmptyResult } \cup { ReplyAbi(a) : a \in Abis }

(***************************************************************************)
(* Responses of /analyze.                                                  *)
(***************************************************************************)
Response(status_code, detail, address, analysis, risk_score, verdict, source) ==
    [status_code |-> status_code, detail |-> detail, address |-> address,
     analysis |-> analysis, risk_score |-> risk_score, verdict |-> verdict,
     source |-> source]

\* raise HTTPException(status_code, detail): no result body
HttpError(status_code, detail) ==
    Response(status_code, detail, "", EmptyResults, -1, "", "")

\* the result built when the contract is not verified or has no ABI
UnverifiedResult(contract_address) ==
    Response(200, "", contract_address, EmptyResults, 0, VerdictCannotAnalyze,
             "Etherscan API")

\* the result built from the parsed ABI
AnalyzedResult(contract_address, contract_abi) ==
    LET analysis == analyze_contract_abi(contract_abi)
        risk_score == RiskScore(analysis)
    IN  Response(200, "", contract_address, analysis, risk_score,
                 Verdict(risk_score), "Etherscan API (Live)")

\* mutant: the `not data.get('result')` test forgotten
IsUnverifiedByStatus(data) == data.status # "1"

\* data.get('status') != '1' or not data.get('result')
IsUnverified(data) == data.status # "1" \/ data.kind = "empty"

NoResponse == HttpError(0, "")

\* the try block of analyze_contract, with its except clauses
FetchResponse(contract_address, data) ==
    IF data.transport = "timeout"
    THEN HttpError(408, "Etherscan API timeout. Please try again.")
    ELSE IF IsUnverified(data) THEN UnverifiedResult(contract_address)
    ELSE IF data.kind = "bad_json"
    THEN HttpError(502, "Invalid response from Etherscan API.")
    ELSE IF data.kind = "json_object"
    THEN HttpError(500, "Internal server error")
    ELSE AnalyzedResult(contract_address, data.abi)

(***************************************************************************)
(* State.                                                                  *)
(***************************************************************************)
VARIABLES
    slot,          \* slot[s]: the handler instance s, where it stands, and once
                   \* it is done the Etherscan data it got and the response it sent
    api_requests,  \* api_requests[u]: rows of today in api_requests with user_id u
    fetched,       \* fetched[u]: requests of u today that reached requests.get
    received       \* requests received so far

vars == <<slot, api_requests, fetched, received>>

Slots == 1..MaxInFlight

Idle ==
    [pc |-> "idle", x_api_key |-> "", contract_address |-> "", user |-> NoUser,
     data |-> NoReply, response |-> NoResponse]

Init ==
    /\ slot = [s \in Slots |-> Idle]
    /\ api_requests = [u \in Users |-> 0]
    /\ fetched = [u \in Users |-> 0]
    /\ received = 0

\* the handler ends: the response is sent
Finish(s, data, response) ==
    slot' = [slot EXCEPT ![s].pc = "done", ![s].data = data, ![s].response = response]

\* a POST /analyze arrives, while fewer than cap have
Receive(s, x_api_key, contract_address, cap) ==
    /\ slot[s].pc \in {"idle", "done"}
    /\ received < cap
    /\ received' = received + 1
    /\ slot' = [slot EXCEPT ![s] = [Idle EXCEPT !.pc = "auth",
                                                !.x_api_key = x_api_key,
                                                !.contract_address = contract_address]]
    /\ UNCHANGED <<api_requests, fetched>>

\* the x_api_key check and get_user_by_api_key
Authenticate(s, db_ok) ==
    /\ slot[s].pc = "auth"
    /\ IF slot[s].x_api_key = ""
       THEN Finish(s, NoReply, HttpError(401, "API key required"))
       ELSE LET user == get_user_by_api_key(slot[s].x_api_key, db_ok)
            IN  IF user = NoUser
                THEN Finish(s, NoReply, HttpError(401, "Invalid API key"))
                ELSE slot' = [slot EXCEPT ![s].pc = "rate_limit", ![s].user = user]
    /\ UNCHANGED <<api_requests, fetched, received>>

\* request_count < limits.get(plan, 5)
check_rate_limit(user_id) == api_requests[user_id] < LimitOf(PlanOf(user_id))

\* await check_rate_limit(user['id'])
CheckRateLimit(s) ==
    /\ slot[s].pc = "rate_limit"
    /\ IF ~check_rate_limit(slot[s].user)
       THEN Finish(s, NoReply, HttpError(429, "Daily limit exceeded"))
       ELSE slot' = [slot EXCEPT ![s].pc = "validate"]
    /\ UNCHANGED <<api_requests, fetched, received>>

\* is_valid_ethereum_address, then log_api_request, whose insert may fail:
\* the exception is logged and swallowed
ValidateAndLog(s, insert_ok) ==
    /\ slot[s].pc = "validate"
    /\ IF ~is_valid_ethereum_address(slot[s].contract_address)
       THEN /\ Finish(s, NoReply, HttpError(400, "Invalid Ethereum address format"))
            /\ UNCHANGED api_requests
       ELSE /\ api_requests' =
                   IF insert_ok
                   THEN [api_requests EXCEPT ![slot[s].user] = @ + 1]
                   ELSE api_requests
            /\ slot' = [slot EXCEPT ![s].pc = "fetch"]
    /\ UNCHANGED <<fetched, received>>

\* contract_address = request.contract_address.lower().strip(), requests.get
\* with one of `replies` as Etherscan's answer, and the rest of the handler
Fetch(s, replies) ==
    /\ slot[s].pc = "fetch"
    /\ fetched' = [fetched EXCEPT ![slot[s].user] = @ + 1]
    /\ LET contract_address == Strip(Lower(slot[s].contract_address))
       IN  \E data \in replies : Finish(s, data, FetchResponse(contract_address, data))
    /\ UNCHANGED <<api_requests, received>>

(***************************************************************************)
(* Spec: handlers of one free-plan key in flight together.                 *)
(***************************************************************************)
Next ==
    \E s \in Slots :
        \/ \E k \in {"sk_free", "sk_unknown"}, a \in {AddrCanonical, AddrNotHex} :
               Receive(s, k, a, MaxRequests)
        \/ \E db_ok \in BOOLEAN : Authenticate(s, db_ok)
        \/ CheckRateLimit(s)
        \/ \E insert_ok \in BOOLEAN : ValidateAndLog(s, insert_ok)
        \/ Fetch(s, {ReplyNotVerified, ReplyAbi(<< >>)})

Spec == Init /\ [][Next]_vars

(***************************************************************************)
(* SpecAddress: one handler at a time, any key and any address.            *)
(***************************************************************************)
NextAddress ==
    \/ \E k \in ApiKeys, a \in Addresses : Receive(1, k, a, MaxSequential)
    \/ \E db_ok \in BOOLEAN : Authenticate(1, db_ok)
    \/ CheckRateLimit(1)
    \/ \E insert_ok \in BOOLEAN : ValidateAndLog(1, insert_ok)
    \/ Fetch(1, FewReplies)

SpecAddress == Init /\ [][NextAddress]_vars

(***************************************************************************)
(* SpecAnalysis: one handler at a time, one free-plan key, one address, a  *)
(* request log that takes every insert, and every ABI within the bound as  *)
(* Etherscan's reply.                                                      *)
(***************************************************************************)
NextAnalysis ==
    \/ Receive(1, "sk_free", AddrChecksummed, MaxSequential)
    \/ \E db_ok \in BOOLEAN : Authenticate(1, db_ok)
    \/ CheckRateLimit(1)
    \/ ValidateAndLog(1, TRUE)
    \/ Fetch(1, AllReplies)

SpecAnalysis == Init /\ [][NextAnalysis]_vars

(***************************************************************************)
(* What the properties speak of.                                           *)
(***************************************************************************)
Done(s) == slot[s].pc = "done"

\* the handler returned a result (HTTP 200)
Returned(s) == Done(s) /\ slot[s].response.status_code = 200

\* Etherscan answered that the contract is unverified or has no ABI
GotUnverified(s) ==
    /\ Done(s)
    /\ slot[s].data.transport = "ok"
    /\ (slot[s].data.status # "1" \/ slot[s].data.kind = "empty")

\* Etherscan answered with an ABI, which was analyzed
GotAbi(s) == Done(s) /\ slot[s].data.kind = "abi_json"

AbiOf(s) == slot[s].data.abi
AnalysisOf(s) == slot[s].response.analysis
ScoreOf(s) == slot[s].response.risk_score

\* the lower-cased names of the function items of abi that pass Test, in the
\* order of the ABI (the flag of a category is set exactly when there is one)
NamesWhere(abi, Test(_)) ==
    LET hits == SelectSeq(abi, LAMBDA it : it.type = "function" /\ Test(it))
    IN  [i \in 1..Len(hits) |-> Lower(hits[i].name)]

AnyOf(keywords, name) == \E k \in keywords : Contains(k, name)

Bit(b) == IF b THEN 1 ELSE 0

Min(a, b) == IF a <= b THEN a ELSE b

(***************************************************************************)
(* C1.  The risk_score of every result /analyze returns, from an analyzed  *)
(* ABI or from the unverified branch, is an integer from 0 to 100.         *)
(***************************************************************************)
\* C1: every returned risk_score lies in 0..100
C1_ScoreWithinRange ==
    \A s \in Slots : Returned(s) => ScoreOf(s) \in 0..100

\* a result at the top of the range, and it came from three matched categories
C1_Witness ==
    \E s \in Slots :
        /\ GotAbi(s) /\ Returned(s) /\ ScoreOf(s) = 100
        /\ AnalysisOf(s).has_mint /\ AnalysisOf(s).has_ownership
        /\ AnalysisOf(s).has_hidden_taxes

(***************************************************************************)
(* C2.  As claimed: has_mint is set, and the name recorded, exactly for    *)
(* the function items with at least one input whose lower-cased name       *)
(* starts with mint, createtoken, generatetoken or print and does not      *)
(* continue the pattern with role, ed or er.                               *)
(***************************************************************************)
ClaimedMintItem(it) ==
    LET name == Lower(it.name)
    IN  /\ Len(it.inputs) >= 1
        /\ \E p \in {"mint", "createtoken", "generatetoken", "print"} :
              /\ StartsWith(name, p)
              /\ \A suffix \in {"role", "ed", "er"} : ~StartsWith(name, p \o suffix)

\* C2 as claimed: mint is flagged by prefix, with the role/ed/er exclusion
C2_MintPrefixRule ==
    \A s \in Slots : GotAbi(s) =>
        LET names == NamesWhere(AbiOf(s), ClaimedMintItem)
        IN  /\ AnalysisOf(s).has_mint <=> Len(names) > 0
            /\ AnalysisOf(s).mint_functions = names

(***************************************************************************)
(* C2, amended.  has_mint is set, and the lower-cased name appended to     *)
(* mint_functions, exactly for the function items with at least one input  *)
(* whose lower-cased name contains mint, createtokens or generatetokens    *)
(* anywhere; minter with one input sets has_mint.                          *)
(***************************************************************************)
ContainsMintItem(it) ==
    /\ Len(it.inputs) >= 1
    /\ AnyOf({"mint", "createtokens", "generatetokens"}, Lower(it.name))

\* C2 amended: mint is flagged by keyword containment and at least one input
C2_MintContainsRule ==
    \A s \in Slots : GotAbi(s) =>
        LET names == NamesWhere(AbiOf(s), ContainsMintItem)
        IN  /\ AnalysisOf(s).has_mint <=> Len(names) > 0
            /\ AnalysisOf(s).mint_functions = names

\* minter(address) and mint() analyzed: the first is flagged, the second is not
C2_Witness ==
    \E s \in Slots :
        /\ GotAbi(s)
        /\ AbiOf(s) = << Item("function", "minter", "nonpayable", OneInput),
                         Item("function", "mint", "nonpayable", NoInputs) >>
        /\ AnalysisOf(s).has_mint
        /\ AnalysisOf(s).mint_functions = <<"minter">>

(***************************************************************************)
(* C3.  As claimed: has_ownership is set only when some function item's    *)
(* lower-cased name is an element of the closed ownership set, and         *)
(* has_hidden_taxes only when one is an element of the closed tax set.     *)
(***************************************************************************)
ClaimedOwnershipNames ==
    { "transferownership", "renounceownership", "setowner", "updateowner",
      "changeowner", "addowner", "removeowner", "setadmin", "changeadmin",
      "transferadmin", "claimownership" }

ClaimedTaxNames ==
    { "setfee", "settax", "updatefee", "updatetax", "changefee", "changetax",
      "setcommission", "updatecommission", "changecommission", "setratio",
      "updateratio", "changeratio" }

SomeFunctionNamed(abi, names) ==
    \E i \in 1..Len(abi) : abi[i].type = "function" /\ Lower(abi[i].name) \in names

\* C3 as claimed: ownership and tax flags need an exact name of the closed sets
C3_ExactNamesOnly ==
    \A s \in Slots : GotAbi(s) =>
        /\ AnalysisOf(s).has_ownership => SomeFunctionNamed(AbiOf(s), ClaimedOwnershipNames)
        /\ AnalysisOf(s).has_hidden_taxes => SomeFunctionNamed(AbiOf(s), ClaimedTaxNames)

(***************************************************************************)
(* C3, amended.  has_ownership is set, and the name recorded, exactly for  *)
(* the function items whose lower-cased name contains one of               *)
(* transferownership, renounceownership, setowner, updateowner, addowner,  *)
(* removeowner; has_hidden_taxes likewise for setfee, settax, updatefee,   *)
(* updatetax, setcommission.  transferOwnershipTo and setFeeReceiver       *)
(* trigger their categories; ownership triggers neither.                   *)
(***************************************************************************)
ContainsOwnerItem(it) ==
    AnyOf({"transferownership", "renounceownership", "setowner", "updateowner",
           "addowner", "removeowner"}, Lower(it.name))

ContainsTaxItem(it) ==
    AnyOf({"setfee", "settax", "updatefee", "updatetax", "setcommission"}, Lower(it.name))

\* C3 amended: ownership and tax flags follow keyword containment
C3_ContainedNames ==
    \A s \in Slots : GotAbi(s) =>
        LET owners == NamesWhere(AbiOf(s), ContainsOwnerItem)
            taxes == NamesWhere(AbiOf(s), ContainsTaxItem)
        IN  /\ AnalysisOf(s).has_ownership <=> Len(owners) > 0
            /\ AnalysisOf(s).owner_functions = owners
            /\ AnalysisOf(s).has_hidden_taxes <=> Len(taxes) > 0
            /\ AnalysisOf(s).tax_functions = taxes

\* transferOwnershipTo, setFeeReceiver and ownership analyzed
C3_Witness ==
    \E s \in Slots :
        /\ GotAbi(s)
        /\ AbiOf(s) = << Item("function", "transferOwnershipTo", "nonpayable", OneInput),
                         Item("function", "setFeeReceiver", "pure", OneInput),
                         Item("function", "ownership", "nonpayable", NoInputs) >>
        /\ AnalysisOf(s).owner_functions = <<"transferownershipto">>
        /\ AnalysisOf(s).tax_functions = <<"setfeereceiver">>

(***************************************************************************)
(* C4.  As claimed: an ABI whose function items are all view or pure       *)
(* leaves the three flags false and the three name lists empty.            *)
(***************************************************************************)
AllViewOrPure(abi) ==
    \A i \in 1..Len(abi) :
        abi[i].type = "function" => abi[i].stateMutability \in {"view", "pure"}

\* C4 as claimed: an ABI of view and pure functions only is never flagged
C4_ViewPureNeverFlagged ==
    \A s \in Slots : (GotAbi(s) /\ AllViewOrPure(AbiOf(s))) =>
        AnalysisOf(s) =
            [has_mint |-> FALSE, has_ownership |-> FALSE, has_hidden_taxes |-> FALSE,
             owner_functions |-> << >>, tax_functions |-> << >>, mint_functions |-> << >>]

(***************************************************************************)
(* C4, amended.  stateMutability has no part in the analysis: an ABI is    *)
(* analyzed exactly as the same ABI with every item declared nonpayable,   *)
(* so a view or pure function is flagged like a state-changing one.        *)
(***************************************************************************)
AsNonpayable(abi) ==
    [i \in 1..Len(abi) |-> [abi[i] EXCEPT !.stateMutability = "nonpayable"]]

\* C4 amended: the analysis is the same whatever the stateMutability of the items
C4_MutabilityIgnored ==
    \A s \in Slots : GotAbi(s) =>
        AnalysisOf(s) = analyze_contract_abi(AsNonpayable(AbiOf(s)))

\* an ABI of view and pure functions only, flagged in two categories
C4_Witness ==
    \E s \in Slots :
        /\ GotAbi(s)
        /\ AbiOf(s) = << Item("function", "Mint", "view", OneInput),
                         Item("function", "setFeeReceiver", "pure", OneInput) >>
        /\ AnalysisOf(s).has_mint
        /\ AnalysisOf(s).has_hidden_taxes

(***************************************************************************)
(* C5.  As claimed: with at least one category matched, the score is       *)
(* min(100, 35*mint + 40*ownership + 25*tax + bonus), bonus being          *)
(* min((count - 1) * 10, 20) when the count of distinct matched names      *)
(* exceeds 1 and 0 otherwise.                                              *)
(***************************************************************************)
MatchedNames(analysis) ==
    { analysis.mint_functions[i] : i \in 1..Len(analysis.mint_functions) }
      \cup { analysis.owner_functions[i] : i \in 1..Len(analysis.owner_functions) }
      \cup { analysis.tax_functions[i] : i \in 1..Len(analysis.tax_functions) }

ClaimedScore(analysis) ==
    LET count == Cardinality(MatchedNames(analysis))
        bonus == IF count > 1 THEN Min((count - 1) * 10, 20) ELSE 0
    IN  Min(100, 35 * Bit(analysis.has_mint) + 40 * Bit(analysis.has_ownership)
                   + 25 * Bit(analysis.has_hidden_taxes) + bonus)

\* C5 as claimed: score = min(100, 35m + 40o + 25t + multi-hit bonus)
C5_WeightsWithBonus ==
    \A s \in Slots :
        (GotAbi(s) /\ (AnalysisOf(s).has_mint \/ AnalysisOf(s).has_ownership
                         \/ AnalysisOf(s).has_hidden_taxes)) =>
            ScoreOf(s) = ClaimedScore(AnalysisOf(s))

(***************************************************************************)
(* C5, amended.  The score of an analyzed ABI is                           *)
(* 30*mint + 40*ownership + 30*tax, with no multi-hit bonus: a lone mint   *)
(* scores 30, a lone transferOwnership 40, and mint, setFee and            *)
(* transferOwnership together 100.                                         *)
(***************************************************************************)
\* C5 amended: score = 30m + 40o + 30t
C5_PlainWeights ==
    \A s \in Slots : GotAbi(s) =>
        ScoreOf(s) = 30 * Bit(AnalysisOf(s).has_mint)
                       + 40 * Bit(AnalysisOf(s).has_ownership)
                       + 30 * Bit(AnalysisOf(s).has_hidden_taxes)

\* the ABI whose only item is mint(address,uint256), scored 30
C5_Witness ==
    \E s \in Slots :
        /\ GotAbi(s)
        /\ AbiOf(s) = << Item("function", "mint", "nonpayable", TwoInputs) >>
        /\ AnalysisOf(s).has_mint
        /\ ScoreOf(s) = 30

(***************************************************************************)
(* C6.  As claimed: the verdict is the label of the row of the table       *)
(* (>= 80 Critical, 60-79 High, 40-59 Medium, 20-39 Moderate, 5-19 Low,    *)
(* 0 Secure) that holds the score.  The LOW RISK text counts for the       *)
(* Secure row as well as for the Low row.                                  *)
(***************************************************************************)
ClaimedTier(score) ==
    IF score >= 80 THEN "Critical"
    ELSE IF score >= 60 THEN "High"
    ELSE IF score >= 40 THEN "Medium"
    ELSE IF score >= 20 THEN "Moderate"
    ELSE IF score >= 5 THEN "Low"
    ELSE IF score = 0 THEN "Secure"
    ELSE "Unused"

\* the tiers a verdict text of the program names
TiersNamed(verdict) ==
    IF StartsWith(verdict, "CRITICAL RISK") THEN {"Critical"}
    ELSE IF StartsWith(verdict, "MEDIUM RISK") THEN {"Medium"}
    ELSE IF StartsWith(verdict, "LOW RISK") THEN {"Low", "Secure"}
    ELSE {}

\* C6 as claimed: the verdict is the row of the six-tier table holding the score
C6_SixTierTable ==
    \A s \in Slots : GotAbi(s) =>
        ClaimedTier(ScoreOf(s)) \in TiersNamed(slot[s].response.verdict)

(***************************************************************************)
(* C6, amended.  For an analyzed ABI the verdict follows the score by two  *)
(* thresholds: >= 70 CRITICAL RISK, 30-69 MEDIUM RISK, below 30 (0         *)
(* included) LOW RISK.  The unverified branch has its own verdict text.    *)
(***************************************************************************)
\* C6 amended: the verdict follows the thresholds 70 and 30
C6_TwoThresholds ==
    \A s \in Slots :
        /\ GotAbi(s) =>
              slot[s].response.verdict =
                  IF ScoreOf(s) >= 70 THEN "CRITICAL RISK: High probability of scam"
                  ELSE IF ScoreOf(s) >= 30 THEN "MEDIUM RISK: Multiple red flags detected"
                  ELSE "LOW RISK: No critical issues found"
        /\ GotUnverified(s) =>
              slot[s].response.verdict =
                  "Cannot analyze: Contract not verified or ABI not available"

\* a score on the critical threshold itself
C6_Witness ==
    \E s \in Slots :
        /\ GotAbi(s)
        /\ ScoreOf(s) = 70
        /\ slot[s].response.verdict = "CRITICAL RISK: High probability of scam"

(***************************************************************************)
(* C7.  Appending to the analyzed ABI any function item that matches a     *)
(* risk category never gives a lower score than the ABI itself got.        *)
(***************************************************************************)
MatchingItems == { it \in AbiItems : analyze_contract_abi(<<it>>) # EmptyResults }

\* C7: one more matching item never lowers the score
C7_ScoreMonotone ==
    \A s \in Slots : GotAbi(s) =>
        \A it \in MatchingItems :
            RiskScore(analyze_contract_abi(Append(AbiOf(s), it))) >= ScoreOf(s)

\* an ABI scored 70 for which one more matching item raises the score to 100
C7_Witness ==
    \E s \in Slots :
        /\ GotAbi(s)
        /\ ScoreOf(s) = 70
        /\ \E it \in MatchingItems :
              RiskScore(analyze_contract_abi(Append(AbiOf(s), it))) = 100

(***************************************************************************)
(* C8.  As claimed: a handler goes on to log the request and fetch the     *)
(* ABI only if the address, lower-cased, is 0x followed by exactly 40      *)
(* hexadecimal characters.                                                 *)
(***************************************************************************)
LowerHexDigits == "0123456789abcdef"

\* ^0x[0-9a-f]{40}$
MatchesAddressPattern(a) ==
    /\ Len(a) = 42
    /\ StartsWith(a, "0x")
    /\ \A i \in 3..Len(a) : InChars(CharAt(a, i), LowerHexDigits)

\* C8 as claimed: only addresses matching ^0x[0-9a-f]{40}$ reach the log and the fetch
C8_OnlyStrictAddressesFetched ==
    \A s \in Slots :
        (slot[s].pc = "fetch" \/ (Done(s) /\ slot[s].data.transport # "none")) =>
            MatchesAddressPattern(Lower(slot[s].contract_address))

(***************************************************************************)
(* C9.  As claimed: when Etherscan reports the contract unverified or      *)
(* without ABI, the result has the three categories absent, empty name     *)
(* lists, and a risk score that is a fixed constant other than 0.          *)
(***************************************************************************)
\* C9 as claimed: the unverified bundle carries a non-zero score
C9_UnverifiedScoreNonZero ==
    \A s \in Slots : GotUnverified(s) =>
        /\ AnalysisOf(s) = EmptyResults
        /\ ScoreOf(s) # 0

(***************************************************************************)
(* C9, amended.  When Etherscan reports the contract unverified or without *)
(* ABI (status other than '1', or an empty result), /analyze returns one   *)
(* fixed bundle: the three categories absent, empty name lists, risk       *)
(* score 0, and the verdict "Cannot analyze: ...".                         *)
(***************************************************************************)
\* C9 amended: the unverified bundle is fixed, with score 0
C9_UnverifiedBundle ==
    \A s \in Slots : GotUnverified(s) =>
        /\ slot[s].response.status_code = 200
        /\ AnalysisOf(s) =
              [has_mint |-> FALSE, has_ownership |-> FALSE, has_hidden_taxes |-> FALSE,
               owner_functions |-> << >>, tax_functions |-> << >>, mint_functions |-> << >>]
        /\ ScoreOf(s) = 0
        /\ slot[s].response.verdict =
              "Cannot analyze: Contract not verified or ABI not available"
        /\ slot[s].response.source = "Etherscan API"

\* both ways of being unverified have been answered
C9_Witness ==
    \E s \in Slots :
        /\ GotUnverified(s)
        /\ slot[s].data.status = "1"
        /\ slot[s].data.kind = "empty"
        /\ ScoreOf(s) = 0

(***************************************************************************)
(* C10.  Within the day, the requests of a user that passed                *)
(* check_rate_limit and went on to the ABI fetch never number more than    *)
(* the limit of the user's plan.                                           *)
(***************************************************************************)
\* C10: no user has more requests fetched in the day than the plan allows
C10_QuotaRespected ==
    \A u \in Users : fetched[u] <= LimitOf(PlanOf(u))

====
